---- MODULE Spec2Model ----
(***************************************************************************)
(* A model of sympc/utils/mpc_utils.py: the ring-size/dtype registry with  *)
(* its lru_cache memoisation, count_wraps, the seeded generator helpers,   *)
(* get_nr_bits and decompose.                                              *)
(*                                                                         *)
(* Python integers (ring sizes) are unbounded, and 2**32 and 2**64 do not  *)
(* fit a TLC integer, so a Python int >= 0 is modelled by its binary       *)
(* expansion: a sequence of bits, least significant first, with no leading *)
(* zero (0 is the empty sequence).  A torch dtype is modelled by its name. *)
(***************************************************************************)
EXTENDS Integers, Sequences, FiniteSets, TLC

VARIABLES
    type_cache,     \* lru_cache of get_type_from_ring: <<[key, val]>>, oldest first
    ring_cache,     \* lru_cache of get_ring_size_from_type, oldest first
    nr_bits_cache,  \* lru_cache of get_nr_bits, oldest first
    generators,     \* the torch.Generator objects created so far
    default_gen,    \* torch's process-wide default generator
    ret             \* the last call: its function, arguments and outcome (or,
                    \* with fn = "input", the arguments of the call to come)

vars == <<type_cache, ring_cache, nr_bits_cache, generators, default_gen, ret>>

----------------------------------------------------------------------------
(* Python ints as bit sequences *)

RECURSIVE NatBits(_)
\* the binary expansion of a small natural number n
NatBits(n) == IF n = 0 THEN <<>> ELSE <<n % 2>> \o NatBits(n \div 2)

\* 2 ** k
Pow2(k) == [i \in 1..(k + 1) |-> IF i = k + 1 THEN 1 ELSE 0]

RECURSIVE Strip(_)
\* drop the leading (most significant) zeros
Strip(b) == IF b = <<>> \/ b[Len(b)] = 1 THEN b ELSE Strip(SubSeq(b, 1, Len(b) - 1))

RECURSIVE AbsPred(_)
\* |n - 1| for a Python int n >= 0: the borrow runs through the low zeros
AbsPred(b) ==
    IF b = <<>> THEN <<1>>
    ELSE IF Head(b) = 1 THEN Strip(<<0>> \o Tail(b))
    ELSE <<1>> \o AbsPred(Tail(b))

\* int.bit_length(): the number of bits of |n|, 0 for n = 0
bit_length(b) == Len(b)

----------------------------------------------------------------------------
(* outcomes of a call *)

Return(v) == [kind |-> "return", val |-> v]
Raise(e) == [kind |-> "raise", exc |-> e]

----------------------------------------------------------------------------
(* the registry *)

RING_SIZE_TO_TYPE ==
    (Pow2(1) :> "torch.bool") @@ (Pow2(8) :> "torch.int8") @@
    (Pow2(16) :> "torch.int16") @@ (Pow2(32) :> "torch.int32") @@
    (Pow2(64) :> "torch.int64")

\* the table with the ring size of torch.int16 mistyped as 2 ** 8
TYPE_TO_RING_SIZE_typo ==
    ("torch.bool" :> Pow2(1)) @@ ("torch.int8" :> Pow2(8)) @@
    ("torch.int16" :> Pow2(8)) @@ ("torch.int32" :> Pow2(32)) @@
    ("torch.int64" :> Pow2(64))

TYPE_TO_RING_SIZE ==
    ("torch.bool" :> Pow2(1)) @@ ("torch.int8" :> Pow2(8)) @@
    ("torch.int16" :> Pow2(16)) @@ ("torch.int32" :> Pow2(32)) @@
    ("torch.int64" :> Pow2(64))

\* a lookup that falls back to the widest type instead of raising
get_type_from_ring_default(ring_size) ==
    IF ring_size \notin DOMAIN RING_SIZE_TO_TYPE
    THEN Return("torch.int64")
    ELSE Return(RING_SIZE_TO_TYPE[ring_size])

\* the undecorated body of get_type_from_ring
get_type_from_ring(ring_size) ==
    IF ring_size \notin DOMAIN RING_SIZE_TO_TYPE
    THEN Raise("ValueError")
    ELSE Return(RING_SIZE_TO_TYPE[ring_size])

\* the undecorated body of get_ring_size_from_type
get_ring_size_from_type(dtype) ==
    IF dtype \notin DOMAIN TYPE_TO_RING_SIZE
    THEN Raise("ValueError")
    ELSE Return(TYPE_TO_RING_SIZE[dtype])

\* maxsize=len(RING_SIZE_TO_TYPE), maxsize=len(TYPE_TO_RING_SIZE)
TypeCacheMaxsize == Cardinality(DOMAIN RING_SIZE_TO_TYPE)
RingCacheMaxsize == Cardinality(DOMAIN TYPE_TO_RING_SIZE)
\* lru_cache(): functools' default maxsize
NrBitsCacheMaxsize == 128

----------------------------------------------------------------------------
(* functools.lru_cache *)

CacheKeys(cache) == {cache[i].key : i \in 1..Len(cache)}
CacheIndex(cache, key) == CHOOSE i \in 1..Len(cache) : cache[i].key = key
Without(cache, i) == SubSeq(cache, 1, i - 1) \o SubSeq(cache, i + 1, Len(cache))

\* A failure stored like a result: the next call with the key returns None.
LruCallStoresFailure(cache, maxsize, key, out) ==
    IF key \in CacheKeys(cache)
    THEN LET i == CacheIndex(cache, key)
         IN  [cache |-> Append(Without(cache, i), cache[i]),
              out |-> Return(cache[i].val), hit |-> TRUE]
    ELSE LET v == IF out.kind = "raise" THEN "None" ELSE out.val
             kept == IF Len(cache) >= maxsize THEN Tail(cache) ELSE cache
         IN  [cache |-> Append(kept, [key |-> key, val |-> v]),
              out |-> out, hit |-> FALSE]

\* One call through the wrapper: a hit returns the stored value and makes the key
\* the most recent; a miss runs the function (out is its outcome), lets an
\* exception through without storing anything, and otherwise stores the result,
\* dropping the oldest entry when the cache is full.
LruCall(cache, maxsize, key, out) ==
    IF key \in CacheKeys(cache)
    THEN LET i == CacheIndex(cache, key)
         IN  [cache |-> Append(Without(cache, i), cache[i]),
              out |-> Return(cache[i].val), hit |-> TRUE]
    ELSE IF out.kind = "raise"
    THEN [cache |-> cache, out |-> out, hit |-> FALSE]
    ELSE LET kept == IF Len(cache) >= maxsize THEN Tail(cache) ELSE cache
         IN  [cache |-> Append(kept, [key |-> key, val |-> out.val]),
              out |-> out, hit |-> FALSE]

----------------------------------------------------------------------------
(* inputs *)

SupportedRings == {Pow2(1), Pow2(8), Pow2(16), Pow2(32), Pow2(64)}
UnsupportedRings == {NatBits(3)}
RingInputs == SupportedRings \cup UnsupportedRings
SupportedTypes == {"torch.bool", "torch.int8", "torch.int16", "torch.int32", "torch.int64"}
UnsupportedTypes == {"torch.float32"}
TypeInputs == SupportedTypes \cup UnsupportedTypes

NoCall == [fn |-> "none"]

InitCommon ==
    /\ type_cache = <<>>
    /\ ring_cache = <<>>
    /\ nr_bits_cache = <<>>
    /\ generators = <<>>
    /\ default_gen = 0
    /\ ret = NoCall

----------------------------------------------------------------------------
(* the memoised lookups *)

CallGetTypeFromRing(ring_size) ==
    LET c == LruCall(type_cache, TypeCacheMaxsize, ring_size,
                     get_type_from_ring(ring_size))
    IN  /\ type_cache' = c.cache
        /\ ret' = [fn |-> "get_type_from_ring", arg |-> ring_size,
                   out |-> c.out, hit |-> c.hit]
        /\ UNCHANGED <<ring_cache, nr_bits_cache, generators, default_gen>>

CallGetRingSizeFromType(dtype) ==
    LET c == LruCall(ring_cache, RingCacheMaxsize, dtype,
                     get_ring_size_from_type(dtype))
    IN  /\ ring_cache' = c.cache
        /\ ret' = [fn |-> "get_ring_size_from_type", arg |-> dtype,
                   out |-> c.out, hit |-> c.hit]
        /\ UNCHANGED <<type_cache, nr_bits_cache, generators, default_gen>>

LookupType == \E r \in RingInputs : CallGetTypeFromRing(r)
LookupRing == \E t \in TypeInputs : CallGetRingSizeFromType(t)

NextRegistry == LookupType \/ LookupRing

SpecRegistry == InitCommon /\ [][NextRegistry]_vars

\* C8: whatever was called before, a lookup of x returns the table's entry for x
\* when x is supported and fails when it is not, and no failed lookup is ever
\* stored in a cache (every stored entry is an entry of the table).
C8_MemoTransparent ==
    /\ ret.fn = "get_type_from_ring" =>
           IF ret.arg \in SupportedRings
           THEN ret.out.kind = "return" /\ ret.out.val = RING_SIZE_TO_TYPE[ret.arg]
           ELSE ret.out.kind = "raise"
    /\ ret.fn = "get_ring_size_from_type" =>
           IF ret.arg \in SupportedTypes
           THEN ret.out.kind = "return" /\ ret.out.val = TYPE_TO_RING_SIZE[ret.arg]
           ELSE ret.out.kind = "raise"
    /\ \A i \in 1..Len(type_cache) :
           /\ type_cache[i].key \in SupportedRings
           /\ type_cache[i].val = RING_SIZE_TO_TYPE[type_cache[i].key]
    /\ \A i \in 1..Len(ring_cache) :
           /\ ring_cache[i].key \in SupportedTypes
           /\ ring_cache[i].val = TYPE_TO_RING_SIZE[ring_cache[i].key]
    /\ Len(type_cache) <= TypeCacheMaxsize
    /\ Len(ring_cache) <= RingCacheMaxsize

\* both caches are full and the last lookup was answered from the cache
C8_Witness ==
    /\ Len(type_cache) = TypeCacheMaxsize
    /\ Len(ring_cache) = RingCacheMaxsize
    /\ ret.fn = "get_type_from_ring"
    /\ ret.hit
    /\ ret.out = Return("torch.int16")

----------------------------------------------------------------------------
(* the two lookups composed, as a caller composes them *)

\* get_ring_size_from_type(get_type_from_ring(ring_size))
RingRoundTrip(ring_size) ==
    LET c1 == LruCall(type_cache, TypeCacheMaxsize, ring_size,
                      get_type_from_ring(ring_size))
        c2 == LruCall(ring_cache, RingCacheMaxsize, c1.out.val,
                      get_ring_size_from_type(c1.out.val))
    IN  /\ type_cache' = c1.cache
        /\ IF c1.out.kind = "raise"
           THEN /\ ring_cache' = ring_cache
                /\ ret' = [fn |-> "ring_round_trip", arg |-> ring_size, out |-> c1.out]
           ELSE /\ ring_cache' = c2.cache
                /\ ret' = [fn |-> "ring_round_trip", arg |-> ring_size, out |-> c2.out]
        /\ UNCHANGED <<nr_bits_cache, generators, default_gen>>

\* get_type_from_ring(get_ring_size_from_type(dtype))
TypeRoundTrip(dtype) ==
    LET c1 == LruCall(ring_cache, RingCacheMaxsize, dtype,
                      get_ring_size_from_type(dtype))
        c2 == LruCall(type_cache, TypeCacheMaxsize, c1.out.val,
                      get_type_from_ring(c1.out.val))
    IN  /\ ring_cache' = c1.cache
        /\ IF c1.out.kind = "raise"
           THEN /\ type_cache' = type_cache
                /\ ret' = [fn |-> "type_round_trip", arg |-> dtype, out |-> c1.out]
           ELSE /\ type_cache' = c2.cache
                /\ ret' = [fn |-> "type_round_trip", arg |-> dtype, out |-> c2.out]
        /\ UNCHANGED <<nr_bits_cache, generators, default_gen>>

RoundTripOfRing == \E r \in RingInputs : RingRoundTrip(r)
RoundTripOfType == \E t \in TypeInputs : TypeRoundTrip(t)

NextBijection == RoundTripOfRing \/ RoundTripOfType

SpecBijection == InitCommon /\ [][NextBijection]_vars

\* C5: for every supported ring size r the ring size of the type of r is r, and
\* for every supported type t the type of the ring size of t is t.
C5_Bijection ==
    /\ (ret.fn = "ring_round_trip" /\ ret.arg \in SupportedRings) =>
           ret.out.kind = "return" /\ ret.out.val = ret.arg
    /\ (ret.fn = "type_round_trip" /\ ret.arg \in SupportedTypes) =>
           ret.out.kind = "return" /\ ret.out.val = ret.arg

\* every supported ring size and type has been through a round trip, the last
\* one the 16-bit ring
C5_Witness ==
    /\ Len(type_cache) = TypeCacheMaxsize
    /\ Len(ring_cache) = RingCacheMaxsize
    /\ ret.fn = "ring_round_trip"
    /\ ret.arg = Pow2(16)
    /\ ret.out.kind = "return"

----------------------------------------------------------------------------
(* get_nr_bits *)

\* ring_size.bit_length(): the subtraction of 1 left out
get_nr_bits_no_decrement(ring_size) == Return(bit_length(ring_size))

\* the undecorated body of get_nr_bits
get_nr_bits(ring_size) == Return(bit_length(AbsPred(ring_size)))

NrBitsInputs == SupportedRings \cup {NatBits(1), NatBits(3)}

CallGetNrBits(ring_size) ==
    LET c == LruCall(nr_bits_cache, NrBitsCacheMaxsize, ring_size,
                     get_nr_bits(ring_size))
    IN  /\ nr_bits_cache' = c.cache
        /\ ret' = [fn |-> "get_nr_bits", arg |-> ring_size, out |-> c.out,
                   hit |-> c.hit]
        /\ UNCHANGED <<type_cache, ring_cache, generators, default_gen>>

NextNrBits == \E r \in NrBitsInputs : CallGetNrBits(r)

SpecNrBits == InitCommon /\ [][NextNrBits]_vars

\* the exponents of the supported ring sizes
RingExponents == {1, 8, 16, 32, 64}

\* C7: get_nr_bits(2^k) = k for k in {1, 8, 16, 32, 64}.
C7_BitWidth ==
    \A k \in RingExponents :
        (ret.fn = "get_nr_bits" /\ ret.arg = Pow2(k)) => ret.out = Return(k)

\* the bit width of the boolean ring was computed, not read from the cache,
\* after the width of the 64-bit ring
C7_Witness ==
    /\ ret.fn = "get_nr_bits"
    /\ ret.arg = Pow2(1)
    /\ ~ret.hit
    /\ ret.out = Return(1)
    /\ Pow2(64) \in CacheKeys(nr_bits_cache)

----------------------------------------------------------------------------
(* torch tensors of a signed integer dtype: [dtype, data], data the elements *)
(* in order.  Every operation count_wraps uses is elementwise.               *)

\* the width in bits of a signed integer dtype
DtypeBits(dtype) ==
    CASE dtype = "torch.int8" -> 8 [] dtype = "torch.int16" -> 16
      [] dtype = "torch.int32" -> 32 [] dtype = "torch.int64" -> 64

IntMin(bits) == -(2 ^ (bits - 1))
IntMax(bits) == 2 ^ (bits - 1) - 1

\* the value a fixed-width signed integer of that width holds after an
\* operation whose exact result is n (two's complement wraparound)
WrapToType(n, bits) == ((n + 2 ^ (bits - 1)) % (2 ^ bits)) - 2 ^ (bits - 1)

\* an addition carried out in a wider type: the sum never wraps
WidenedAdd(a, b, bits) == a + b

\* a + b on elements of a dtype of that width
WrapAdd(a, b, bits) == WrapToType(a + b, bits)

\* cur_share + prev_share
TensorAdd(x, y) ==
    [dtype |-> x.dtype,
     data |-> [i \in DOMAIN x.data |-> WrapAdd(x.data[i], y.data[i], DtypeBits(x.dtype))]]

\* (mask).long()
Long(b) == IF b THEN 1 ELSE 0

RECURSIVE count_wraps_loop(_, _, _)
\* the for loop of count_wraps, over the shares still to add
count_wraps_loop(res, prev_share, rest) ==
    IF rest = <<>> THEN res
    ELSE LET cur_share == Head(rest)
             next_share == TensorAdd(cur_share, prev_share)
             under == [i \in DOMAIN res |->
                          Long(prev_share.data[i] < 0 /\ cur_share.data[i] < 0
                               /\ next_share.data[i] > 0)]
             over == [i \in DOMAIN res |->
                          Long(prev_share.data[i] > 0 /\ cur_share.data[i] > 0
                               /\ next_share.data[i] < 0)]
         IN  count_wraps_loop([i \in DOMAIN res |-> res[i] - under[i] + over[i]],
                              next_share, Tail(rest))

count_wraps(share_list) ==
    IF share_list = <<>> THEN Raise("IndexError")
    ELSE Return(count_wraps_loop([i \in DOMAIN share_list[1].data |-> 0],
                                 share_list[1], Tail(share_list)))

\* the longest share list tried
MaxShares == 3

WrapDtypes == {"torch.int8", "torch.int16"}

\* element values at the edges of the type and of a wraparound
EdgeValues(bits) ==
    {IntMin(bits), IntMin(bits) + 1, -(2 ^ (bits - 2)), -1, 0, 1,
     2 ^ (bits - 2), IntMax(bits)}
FewValues(bits) == {IntMin(bits), -1, 1, IntMax(bits)}

\* the tensors tried: one element from EdgeValues, or two from FewValues
Tensors(dtype, numel) ==
    IF numel = 1
    THEN {[dtype |-> dtype, data |-> <<v>>] : v \in EdgeValues(DtypeBits(dtype))}
    ELSE {[dtype |-> dtype, data |-> <<v, w>>] :
              v \in FewValues(DtypeBits(dtype)), w \in FewValues(DtypeBits(dtype))}

\* share lists of equal-shaped shares of one dtype
ShareLists ==
    UNION {[1..n -> Tensors(dtype, numel)] :
               n \in 0..MaxShares, dtype \in WrapDtypes, numel \in {1, 2}}

\* count_wraps applied to the share list drawn at the start
CallCountWraps ==
    /\ ret.fn = "input"
    /\ ret' = [fn |-> "count_wraps", share_list |-> ret.share_list,
               out |-> count_wraps(ret.share_list)]
    /\ UNCHANGED <<type_cache, ring_cache, nr_bits_cache, generators, default_gen>>

InitWraps ==
    /\ type_cache = <<>>
    /\ ring_cache = <<>>
    /\ nr_bits_cache = <<>>
    /\ generators = <<>>
    /\ default_gen = 0
    /\ ret \in {[fn |-> "input", share_list |-> s] : s \in ShareLists}

NextWraps == CallCountWraps

SpecWraps == InitWraps /\ [][NextWraps]_vars

(* what the claims about count_wraps speak of *)

IsWrapsCall == ret.fn = "count_wraps" /\ ret.out.kind = "return"
WrapShares == ret.share_list
WrapBits == DtypeBits(WrapShares[1].dtype)
WrapPositions == DOMAIN WrapShares[1].data

RECURSIVE ExactSum(_, _, _)
\* the unbounded integer sum of the first n shares at position i
ExactSum(shares, n, i) ==
    IF n = 0 THEN 0 ELSE shares[n].data[i] + ExactSum(shares, n - 1, i)

\* C1: at each position the count is the net number of wraparounds q, with
\* exact sum = wrapped sum + q * 2^k.
C1_NetWraparounds ==
    IsWrapsCall =>
        \A i \in WrapPositions :
            LET exact == ExactSum(WrapShares, Len(WrapShares), i)
            IN  exact = WrapToType(exact, WrapBits) + ret.out.val[i] * 2 ^ WrapBits

\* C2: for the two shares [a, b], both the most negative value of the type,
\* count_wraps reports exactly -1.
C2_MinMinIsMinusOne ==
    (/\ IsWrapsCall
     /\ Len(WrapShares) = 2
     /\ WrapShares[1].data = <<IntMin(WrapBits)>>
     /\ WrapShares[2].data = <<IntMin(WrapBits)>>)
        => ret.out.val = <<-1>>

\* the accumulated share after the first n shares, as the claim defines it:
\* the running sum in fixed-width arithmetic
Acc(shares, n, i, bits) == WrapToType(ExactSum(shares, n, i), bits)

RECURSIVE StepSum(_, _, _, _)
\* the events of steps 2..n at position i: -1 for an underflow event, +1 for an
\* overflow event, 0 otherwise
StepSum(shares, n, i, bits) ==
    IF n <= 1 THEN 0
    ELSE LET acc == Acc(shares, n - 1, i, bits)
             s == shares[n].data[i]
             next == Acc(shares, n, i, bits)
         IN  StepSum(shares, n - 1, i, bits)
             + (IF acc < 0 /\ s < 0 /\ next > 0 THEN -1
                ELSE IF acc > 0 /\ s > 0 /\ next < 0 THEN 1
                ELSE 0)

----------------------------------------------------------------------------
(* decompose.  An int32 or int64 element does not fit a TLC integer, so an    *)
(* element of the tensor to decompose is its two's complement bit pattern, a  *)
(* sequence of DtypeBits(dtype) bits, least significant first (a torch.bool   *)
(* element is one bit).  The elements of the result lie in -1..1 and are      *)
(* written as integers.  A float32 is [sign, mant, exp], standing for         *)
(* sign * mant * 2^exp with mant a natural number in binary, odd or zero.     *)

Zeros(n) == [i \in 1..n |-> 0]
PadTo(b, k) == IF Len(b) >= k THEN SubSeq(b, 1, k) ELSE b \o Zeros(k - Len(b))

RECURSIVE Inc(_)
\* n + 1 for a natural number n
Inc(b) ==
    IF b = <<>> THEN <<1>>
    ELSE IF Head(b) = 0 THEN <<1>> \o Tail(b)
    ELSE <<0>> \o Inc(Tail(b))

RECURSIVE IncWrap(_)
\* x + 1 in the width of x, the carry out dropped
IncWrap(x) ==
    IF x = <<>> THEN <<>>
    ELSE IF Head(x) = 0 THEN <<1>> \o Tail(x)
    ELSE <<0>> \o IncWrap(Tail(x))

RECURSIVE DecWrap(_)
\* x - 1 in the width of x, the borrow out dropped
DecWrap(x) ==
    IF x = <<>> THEN <<>>
    ELSE IF Head(x) = 1 THEN <<0>> \o Tail(x)
    ELSE <<1>> \o DecWrap(Tail(x))

IsNegative(x) == x[Len(x)] = 1
\* -x in the width of x
Negate(x) == IncWrap([i \in DOMAIN x |-> 1 - x[i]])
\* |x| as a natural number: 2^(k-1) for the most negative value
Magnitude(x) == Strip(IF IsNegative(x) THEN Negate(x) ELSE x)

RECURSIVE NatValue(_)
\* the number a short bit sequence stands for
NatValue(b) == IF b = <<>> THEN 0 ELSE Head(b) + 2 * NatValue(Tail(b))

RECURSIVE Normalize(_, _)
Normalize(mant, exp) ==
    IF mant = <<>> THEN [mant |-> <<>>, exp |-> 0]
    ELSE IF Head(mant) = 0 THEN Normalize(Tail(mant), exp + 1)
    ELSE [mant |-> mant, exp |-> exp]

MakeFloat(sign, mant, exp) ==
    LET n == Normalize(Strip(mant), exp)
    IN  [sign |-> sign, mant |-> n.mant, exp |-> n.exp]

\* the bits of a float32 significand
Float32Precision == 24

\* tensor / moduli on two integer tensors is a true division: both operands are
\* converted to the default float dtype, float32, and divided there.  This is
\* the conversion of one integer element: the nearest float32, ties to the even
\* significand.
ToFloat32(x) ==
    LET m == Magnitude(x)
        len == Len(m)
        sign == IF IsNegative(x) THEN -1 ELSE 1
        drop == len - Float32Precision
    IN  IF drop <= 0 THEN MakeFloat(sign, m, 0)
        ELSE LET top == SubSeq(m, drop + 1, len)
                 up == /\ m[drop] = 1
                       /\ \/ top[1] = 1
                          \/ \E i \in 1..(drop - 1) : m[i] = 1
             IN  MakeFloat(sign, IF up THEN Inc(top) ELSE top, drop)

\* a / b in float32 for b a power of two or its negative (every element of
\* moduli is one): the quotient is exact
TrueDivide(a, b) ==
    IF a.mant = <<>> THEN [sign |-> a.sign * b.sign, mant |-> <<>>, exp |-> 0]
    ELSE [sign |-> a.sign * b.sign, mant |-> a.mant, exp |-> a.exp - b.exp]

\* torch.fmod(x, 2): the remainder has the sign of x and is exact
Fmod2(x) ==
    IF x.mant = <<>> \/ x.exp >= 1 THEN [sign |-> x.sign, mant |-> <<>>, exp |-> 0]
    ELSE LET keep == IF Len(x.mant) < 1 - x.exp THEN Len(x.mant) ELSE 1 - x.exp
         IN  MakeFloat(x.sign, SubSeq(x.mant, 1, keep), x.exp)

\* .to(tensor_type) of a float32 of magnitude below 2 ** 30: the fraction is
\* dropped (rounding toward zero)
FloatToInt(x) ==
    IF x.mant = <<>> THEN 0
    ELSE IF x.exp >= 0 THEN x.sign * NatValue(x.mant) * 2 ^ x.exp
    ELSE x.sign * NatValue(SubSeq(x.mant, 1 - x.exp, Len(x.mant)))

\* (2 ** powers).to(tensor_type) at power p: powers has dtype tensor_type, and
\* so has 2 ** powers, which is 2^p wrapped to the width of the type: the most
\* negative value for p = bits - 1
Moduli(p, bits) == [i \in 1..bits |-> IF i = p + 1 THEN 1 ELSE 0]

\* torch.fmod(tensor / moduli, 2).to(tensor_type) for one element of the tensor:
\* the new trailing axis, one entry per power in torch.arange(nr_bits)
DecomposeElement(x, tensor_type, nr_bits) ==
    [q \in 1..nr_bits |->
        FloatToInt(Fmod2(TrueDivide(ToFloat32(x),
                                    ToFloat32(Moduli(q - 1, DtypeBits(tensor_type))))))]

\* Lines 160 to 171, after tensor_type and nr_bits are resolved: the outcomes a
\* call can have.  For torch.bool, torch.arange either is not implemented (the
\* call raises RuntimeError) or yields [False]; then moduli is [True], the
\* quotient is the element as a float and the bit is the element itself.
DecomposeBody(tensor, tensor_type, nr_bits) ==
    IF tensor_type = "torch.bool"
    THEN {Raise("RuntimeError"),
          Return([e \in DOMAIN tensor.data |-> <<tensor.data[e][1]>>])}
    ELSE {Return([e \in DOMAIN tensor.data |->
                     DecomposeElement(tensor.data[e], tensor_type, nr_bits)])}

\* decompose(tensor, ring_size), shape left to its default
CallDecompose(tensor, ring_size) ==
    LET c1 == LruCall(type_cache, TypeCacheMaxsize, ring_size,
                      get_type_from_ring(ring_size))
        c2 == LruCall(nr_bits_cache, NrBitsCacheMaxsize, ring_size,
                      get_nr_bits(ring_size))
    IN  /\ type_cache' = c1.cache
        /\ IF c1.out.kind = "raise"
           THEN /\ nr_bits_cache' = nr_bits_cache
                /\ ret' = [fn |-> "decompose", tensor |-> tensor,
                           ring_size |-> ring_size, out |-> c1.out,
                           raised_in |-> "get_type_from_ring"]
           ELSE /\ nr_bits_cache' = c2.cache
                /\ \E out \in DecomposeBody(tensor, c1.out.val, c2.out.val) :
                       ret' = [fn |-> "decompose", tensor |-> tensor,
                               ring_size |-> ring_size, out |-> out,
                               raised_in |-> IF out.kind = "raise"
                                             THEN "torch.arange" ELSE "nowhere"]
        /\ UNCHANGED <<ring_cache, generators, default_gen>>

(* inputs *)

\* the pattern of a natural number, and of its negative, in that width
Pattern(n, bits) == PadTo(NatBits(n), bits)
NegPattern(n, bits) == Negate(Pattern(n, bits))
MaxPattern(bits) == [i \in 1..bits |-> IF i = bits THEN 0 ELSE 1]
MinPattern(bits) == [i \in 1..bits |-> IF i = bits THEN 1 ELSE 0]

\* values past the float32 significand: 2^24 + 1, 2^24 + 3 and -(2^24 + 1)
WidePatterns(bits) ==
    IF bits <= Float32Precision + 1 THEN {}
    ELSE {PadTo(<<1>> \o Zeros(Float32Precision - 1) \o <<1>>, bits),
          PadTo(<<1, 1>> \o Zeros(Float32Precision - 2) \o <<1>>, bits),
          Negate(PadTo(<<1>> \o Zeros(Float32Precision - 1) \o <<1>>, bits))}

ElementPatterns(bits) ==
    {Pattern(0, bits), Pattern(1, bits), Pattern(2, bits), Pattern(5, bits),
     Pattern(106, bits), NegPattern(1, bits), NegPattern(2, bits),
     NegPattern(6, bits), NegPattern(127, bits), MaxPattern(bits),
     MinPattern(bits), IncWrap(MinPattern(bits))}
        \cup WidePatterns(bits)

\* the tensors of ring elements tried for a supported ring size: one element,
\* or the two elements 5 and -1
RingTensors(ring_size) ==
    LET dtype == RING_SIZE_TO_TYPE[ring_size]
    IN  IF dtype = "torch.bool"
        THEN {[dtype |-> dtype, data |-> <<<<b>>>>] : b \in {0, 1}}
        ELSE {[dtype |-> dtype, data |-> <<x>>] : x \in ElementPatterns(DtypeBits(dtype))}
             \cup {[dtype |-> dtype,
                    data |-> <<Pattern(5, DtypeBits(dtype)),
                               NegPattern(1, DtypeBits(dtype))>>]}

\* ring sizes outside the table: 0, 1, 3, 4, 2^7, 2^63 and 2^65
ErrRings ==
    {NatBits(0), NatBits(1), NatBits(3), NatBits(4), Pow2(7), Pow2(63), Pow2(65)}
\* dtypes outside the table
ErrTypes == {"torch.float32", "torch.float64", "torch.uint8"}

\* the tensor handed over with a ring size outside the table
AnyTensor == [dtype |-> "torch.int8", data |-> <<Pattern(5, 8)>>]

\* a tensor of ring elements with the size of its own ring, or any tensor with
\* a ring size outside the table
DecomposeInputs ==
    UNION {{[fn |-> "input", tensor |-> tensor, ring_size |-> r] :
                tensor \in RingTensors(r)} : r \in SupportedRings}
    \cup {[fn |-> "input", tensor |-> AnyTensor, ring_size |-> r] : r \in ErrRings}

InitDecompose ==
    /\ type_cache = <<>>
    /\ ring_cache = <<>>
    /\ nr_bits_cache = <<>>
    /\ generators = <<>>
    /\ default_gen = 0
    /\ ret \in DecomposeInputs

\* decompose applied to the tensor and ring size drawn at the start
ApplyDecompose ==
    /\ ret.fn = "input"
    /\ CallDecompose(ret.tensor, ret.ring_size)

NextDecompose == ApplyDecompose

SpecDecompose == InitDecompose /\ [][NextDecompose]_vars

(* the calls that must fail, among calls that fill the caches *)

LookupAnyRing == \E r \in SupportedRings \cup ErrRings : CallGetTypeFromRing(r)
LookupAnyType ==
    \E t \in {"torch.bool", "torch.int64"} \cup ErrTypes : CallGetRingSizeFromType(t)
DecomposeNoRing == \E r \in ErrRings : CallDecompose(AnyTensor, r)

NextErrors == LookupAnyRing \/ LookupAnyType \/ DecomposeNoRing

SpecErrors == InitCommon /\ [][NextErrors]_vars

(* what the claims about decompose speak of *)

IsDecomposed == ret.fn = "decompose" /\ ret.out.kind = "return"

\* floor(v / 2^p) for a two's complement pattern: the low p bits go, the sign
\* bit fills in
FloorDivPow2(x, p) == SubSeq(x, p + 1, Len(x)) \o [i \in 1..p |-> x[Len(x)]]
\* v mod 2
Mod2(x) == x[1]

\* C3: for every element v and bit position p, the result at p is
\* floor(v / 2^p) mod 2, a value in {0, 1}; 5 in the ring of size 2^8
\* decomposes to [1,0,1,0,0,0,0,0].  (Stated of the results decompose returns.)
C3_BitsAreFloorDivMod2 ==
    IsDecomposed =>
        \A e \in DOMAIN ret.tensor.data :
            LET v == ret.tensor.data[e]
                bits == ret.out.val[e]
            IN  /\ Len(bits) = Len(v)
                /\ \A p \in 0..(Len(v) - 1) :
                       /\ bits[p + 1] \in {0, 1}
                       /\ bits[p + 1] = Mod2(FloorDivPow2(v, p))
                /\ (ret.ring_size = Pow2(8) /\ v = Pattern(5, 8))
                       => bits = <<1, 0, 1, 0, 0, 0, 0, 0>>

\* x + 2^p and x - 2^p in the width of x, that is, modulo the ring size
AddPow2(x, p) == SubSeq(x, 1, p) \o IncWrap(SubSeq(x, p + 1, Len(x)))
SubPow2(x, p) == SubSeq(x, 1, p) \o DecWrap(SubSeq(x, p + 1, Len(x)))

RECURSIVE Reconstruct(_, _, _)
\* the sum of bits[i] * 2^(i-1) over the first n entries, modulo 2^width
Reconstruct(bits, n, width) ==
    IF n = 0 THEN Zeros(width)
    ELSE LET acc == Reconstruct(bits, n - 1, width)
         IN  IF n > width \/ bits[n] = 0 THEN acc
             ELSE IF bits[n] = 1 THEN AddPow2(acc, n - 1)
             ELSE SubPow2(acc, n - 1)

\* C4: the sum of bits[i] * 2^i over the bit positions, modulo the ring size,
\* is v modulo the ring size.  (Stated of the results decompose returns.)
C4_RoundTrip ==
    IsDecomposed =>
        \A e \in DOMAIN ret.tensor.data :
            LET v == ret.tensor.data[e]
                bits == ret.out.val[e]
            IN  Reconstruct(bits, Len(bits), Len(v)) = v

\* Side checks of the model.  The round trip of C4 does hold in the rings of 2^8
\* and 2^16 elements, whose every element is exact in float32; and the bits of
\* C3 are right for the elements from 0 to 2^24.
RoundTripNarrow ==
    (IsDecomposed /\ ret.ring_size \in {Pow2(8), Pow2(16)}) =>
        \A e \in DOMAIN ret.tensor.data :
            LET v == ret.tensor.data[e]
                bits == ret.out.val[e]
            IN  Reconstruct(bits, Len(bits), Len(v)) = v

BitsOfSmallNonNegative ==
    IsDecomposed =>
        \A e \in DOMAIN ret.tensor.data :
            LET v == ret.tensor.data[e]
            IN  (~IsNegative(v) /\ Len(Strip(v)) <= Float32Precision /\ Len(v) > 1) =>
                    \A p \in 0..(Len(v) - 1) :
                        ret.out.val[e][p + 1] = Mod2(FloorDivPow2(v, p))

\* C6: a lookup of a ring size or a type outside the table raises and returns
\* nothing; decompose with such a ring size raises the same error, in
\* get_type_from_ring, before the bit width is looked up or anything is stored.
C6_UnsupportedFails ==
    /\ (ret.fn = "get_type_from_ring" /\ ret.arg \notin SupportedRings) =>
           ret.out = Raise("ValueError")
    /\ (ret.fn = "get_ring_size_from_type" /\ ret.arg \notin SupportedTypes) =>
           ret.out = Raise("ValueError")
    /\ (ret.fn = "decompose" /\ ret.ring_size \notin SupportedRings) =>
           /\ ret.out = Raise("ValueError")
           /\ ret.raised_in = "get_type_from_ring"
    /\ CacheKeys(type_cache) \subseteq SupportedRings
    /\ CacheKeys(nr_bits_cache) \subseteq SupportedRings
    /\ CacheKeys(ring_cache) \subseteq SupportedTypes

\* decompose was refused for the ring size 2^63 with every supported ring size
\* already in the cache of get_type_from_ring
C6_Witness ==
    /\ ret.fn = "decompose"
    /\ ret.ring_size = Pow2(63)
    /\ ret.out.kind = "raise"
    /\ Len(type_cache) = TypeCacheMaxsize
    /\ Len(ring_cache) = 2

----------------------------------------------------------------------------
(* the seeded generator.  csprng's MT19937 is a deterministic state machine:  *)
(* a state set from the seed, stepped once per number drawn.  It stands here  *)
(* as a small linear congruential generator of full period; only that the     *)
(* stream is a function of the seed and of the numbers drawn so far matters.  *)

MtStates == 2 ^ 6
Mt19937Seed(seed) == (seed * 13 + 7) % MtStates
Mt19937Next(state) == (state * 5 + 3) % MtStates

RECURSIVE Mt19937Skip(_, _)
\* the state after n numbers are drawn
Mt19937Skip(state, n) ==
    IF n = 0 THEN state ELSE Mt19937Skip(Mt19937Next(state), n - 1)

\* get_new_generator(seed): the generator object's state
get_new_generator(seed) == Mt19937Seed(seed)

\* Tensor.random_(generator=...) on a tensor of a signed integer dtype: every
\* element, in order, is overwritten by the next number of the stream, reduced
\* to 0..max of the dtype; the state is left past the numbers drawn
random_(tensor, state) ==
    [tensor |-> [dtype |-> tensor.dtype,
                 data |-> [i \in DOMAIN tensor.data |->
                              Mt19937Skip(state, i - 1)
                                  % (IntMax(DtypeBits(tensor.dtype)) + 1)]],
     state |-> Mt19937Skip(state, Len(tensor.data))]

\* random_() without generator=: the numbers come from the default generator
generate_random_element_default(tensor_type, generator, uninit, dflt) ==
    LET r == random_([dtype |-> tensor_type, data |-> uninit], dflt)
    IN  [tensor |-> r.tensor, generator |-> generator, dflt |-> r.state]

\* generate_random_element(tensor_type, generator, shape): torch.empty gives a
\* tensor of that shape with whatever the memory held (uninit); dflt is the
\* default generator, which the call leaves alone
generate_random_element(tensor_type, generator, uninit, dflt) ==
    LET r == random_([dtype |-> tensor_type, data |-> uninit], generator)
    IN  [tensor |-> r.tensor, generator |-> r.state, dflt |-> dflt]

\* the most generator objects and the most draws from one of them
MaxGenerators == 2
MaxDraws == 2

Seeds == {1, 2}
\* the shapes (n,) tried, by their n
ShapeLengths == {1, 2}
\* what the memory of a fresh tensor may hold
StaleValues == {0, 77}

\* A generator object is [state, seed, draws]: state is the object's own; seed
\* and draws record, for the claims, the seed it was made with and the draws
\* made from it, each [tensor_type, numel, out].
CallGetNewGenerator(seed) ==
    /\ Len(generators) < MaxGenerators
    /\ generators' = Append(generators,
                            [state |-> get_new_generator(seed), seed |-> seed,
                             draws |-> <<>>])
    /\ ret' = [fn |-> "get_new_generator", seed |-> seed, out |-> Len(generators) + 1]
    /\ UNCHANGED <<type_cache, ring_cache, nr_bits_cache, default_gen>>

CallGenerateRandomElement(g, tensor_type, uninit) ==
    /\ Len(generators[g].draws) < MaxDraws
    /\ LET r == generate_random_element(tensor_type, generators[g].state, uninit,
                                        default_gen)
       IN  /\ generators' =
                  [generators EXCEPT
                      ![g].state = r.generator,
                      ![g].draws = Append(@, [tensor_type |-> tensor_type,
                                              numel |-> Len(uninit),
                                              out |-> r.tensor])]
           /\ default_gen' = r.dflt
           /\ ret' = [fn |-> "generate_random_element", generator |-> g,
                      out |-> r.tensor]
    /\ UNCHANGED <<type_cache, ring_cache, nr_bits_cache>>

NewGenerator == \E seed \in Seeds : CallGetNewGenerator(seed)
Draw ==
    \E g \in DOMAIN generators : \E n \in ShapeLengths :
        \E uninit \in [1..n -> StaleValues] :
            CallGenerateRandomElement(g, "torch.int8", uninit)

NextGenerator == NewGenerator \/ Draw

SpecGenerator == InitCommon /\ [][NextGenerator]_vars

RECURSIVE NumbersDrawn(_, _)
\* how many numbers the first n draws of a generator asked for
NumbersDrawn(draws, n) ==
    IF n = 0 THEN 0 ELSE draws[n].numel + NumbersDrawn(draws, n - 1)

SameRequest(d1, d2) == d1.tensor_type = d2.tensor_type /\ d1.numel = d2.numel

\* C9: two generators made with the same seed give the same tensors as long as
\* they are asked for the same draws (type and shape) in the same order; and a
\* draw advances the generator it was given and nothing else: every generator
\* stands where its own draws left it, and the default generator where it was.
C9_SameSeedSameDraws ==
    /\ \A g1 \in DOMAIN generators : \A g2 \in DOMAIN generators :
           generators[g1].seed = generators[g2].seed =>
               \A n \in 1..MaxDraws + 1 :
                   (/\ n <= Len(generators[g1].draws)
                    /\ n <= Len(generators[g2].draws)
                    /\ \A j \in 1..n : SameRequest(generators[g1].draws[j],
                                                   generators[g2].draws[j]))
                       => generators[g1].draws[n].out = generators[g2].draws[n].out
    /\ \A g \in DOMAIN generators :
           generators[g].state =
               Mt19937Skip(Mt19937Seed(generators[g].seed),
                           NumbersDrawn(generators[g].draws, Len(generators[g].draws)))
    /\ default_gen = 0

\* two generators with one seed have each made the same two draws, of two
\* elements and then of one
C9_Witness ==
    /\ Len(generators) >= 2
    /\ generators[1].seed = generators[2].seed
    /\ Len(generators[1].draws) = 2
    /\ Len(generators[2].draws) = 2
    /\ generators[1].draws[1].numel = 2
    /\ generators[1].draws[2].numel = 1
    /\ \A j \in 1..2 : SameRequest(generators[1].draws[j], generators[2].draws[j])
    /\ ret.fn = "generate_random_element"

====
